---- MODULE Spec2Model ----
(***************************************************************************)
(* Model of realtorca's main.go: one Lambda invocation (HandleRequest)     *)
(* fetches listings, asks the DB which are already seen, sends an SNS      *)
(* alert for each new one, marks it seen in the in-memory ListingCache and *)
(* writes the cache back to DynamoDB in a deferred Flush.                  *)
(*                                                                         *)
(* Listing identifiers are the numbers 1..NumIDs.  The DynamoDB item of    *)
(* the single partition "seen-listings" is modelled by its seen_ids        *)
(* attribute: absent item, NULL attribute, list attribute, or an attribute *)
(* that dynamodbattribute cannot decode into []string.                     *)
(***************************************************************************)
EXTENDS Integers, Sequences, FiniteSets, TLC

\* Number of distinct listing identifiers the source may return.
NumIDs == 3
\* Longest listing sequence the fetch of a single invocation returns.
RunMaxLen == 3
\* Longest listing sequence one fetch returns when invocations follow each
\* other or overlap.
MaxLen == 2
\* Number of invocations in a behaviour of sequential runs.
MaxRuns == 2
\* Number of DB method calls in a behaviour of direct calls.
MaxCalls == 4

IDs == 1..NumIDs
Slots == {1, 2}

Range(s) == {s[i] : i \in 1..Len(s)}
SeqsUpTo(S, n) == UNION {[1..k -> S] : k \in 0..n}

(***************************************************************************)
(* The durable item.                                                       *)
(***************************************************************************)
\* GetItem found no item under the partition key (item.Item is nil).
Absent == [present |-> FALSE, t |-> "NULL", v |-> <<>>, rest |-> <<>>]
\* An item whose seen_ids attribute has DynamoDB type t; for "L" v is the
\* list of strings, for "BAD" (an attribute UnmarshalMap rejects, e.g. a
\* string, or a list holding a BOOL) v is what the decoder had stored in
\* SeenIDs when it reported the error; rest is the strings of the attribute
\* behind the rejected element, which the decoder never reaches.
Item(t, v) == [present |-> TRUE, t |-> t, v |-> v, rest |-> <<>>]
\* A seen_ids list holding the strings v, an element UnmarshalMap rejects,
\* then the strings rest.
Malformed(v, rest) == [present |-> TRUE, t |-> "BAD", v |-> v, rest |-> rest]

\* ListingCache pointer of DB: nil after NewDB.
NilCache == [nil |-> TRUE, SeenIDs |-> <<>>]
Cache(ids) == [nil |-> FALSE, SeenIDs |-> ids]

\* Bug variant of UnmarshalMap: nothing is allocated for a missing item, the
\* cache pointer stays nil.
UnmarshalMap_NoAllocOnAbsent(item) ==
  IF ~item.present THEN [err |-> FALSE, cache |-> NilCache]
  ELSE IF item.t = "NULL" THEN [err |-> FALSE, cache |-> Cache(<<>>)]
  ELSE IF item.t = "L" THEN [err |-> FALSE, cache |-> Cache(item.v)]
  ELSE [err |-> TRUE, cache |-> Cache(item.v)]

\* Bug variant of UnmarshalMap: a missing item is reported as an error.
UnmarshalMap_AbsentIsError(item) ==
  IF ~item.present THEN [err |-> TRUE, cache |-> Cache(<<>>)]
  ELSE IF item.t = "NULL" THEN [err |-> FALSE, cache |-> Cache(<<>>)]
  ELSE IF item.t = "L" THEN [err |-> FALSE, cache |-> Cache(item.v)]
  ELSE [err |-> TRUE, cache |-> Cache(item.v)]

\* dynamodbattribute.UnmarshalMap(item.Item, &db.cache): the decoder
\* allocates the ListingCache behind the nil pointer before it looks at the
\* attributes; an absent item or a NULL seen_ids leaves SeenIDs nil.
UnmarshalMap(item) ==
  IF ~item.present \/ item.t = "NULL" THEN [err |-> FALSE, cache |-> Cache(<<>>)]
  ELSE IF item.t = "L" THEN [err |-> FALSE, cache |-> Cache(item.v)]
  ELSE [err |-> TRUE, cache |-> Cache(item.v)]

\* dynamodbattribute.MarshalMap(db.cache): a nil/empty slice is encoded as
\* NULL, a non-empty one as a list.
MarshalMap(cache) ==
  Item(IF cache.SeenIDs = <<>> THEN "NULL" ELSE "L", cache.SeenIDs)

\* The identifiers a durable item holds as the seen-set.
SeenSetOf(item) == IF item.present /\ item.t = "L" THEN Range(item.v) ELSE {}
\* The identifier strings stored in the item's seen_ids attribute, whether
\* or not UnmarshalMap accepts the attribute as a whole.
StoredIDs(item) ==
  IF item.present /\ item.t # "NULL" THEN Range(item.v) \cup Range(item.rest)
  ELSE {}

(***************************************************************************)
(* DB methods.                                                             *)
(***************************************************************************)
\* DB.refreshCache: GetItem, then UnmarshalMap into db.cache.
refreshCache(cache, item, getOk) ==
  IF ~getOk THEN [err |-> TRUE, cache |-> cache]
  ELSE UnmarshalMap(item)

\* Bug variant of Contains: the loop returns the comparison with the first
\* element.
Contains_FirstOnly(ids, id) == Len(ids) >= 1 /\ ids[1] = id

\* Bug variant of Contains: the loop starts at the second element.
Contains_SkipFirst(ids, id) == \E i \in 2..Len(ids) : ids[i] = id

\* The range loop of DB.Seen over db.cache.SeenIDs.
Contains(ids, id) == \E i \in 1..Len(ids) : ids[i] = id

\* Bug variant of Seen: the cache is refreshed on every call.
Seen_AlwaysRefresh(cache, item, getOk, id) ==
  LET l == refreshCache(cache, item, getOk) IN
  IF l.err THEN [err |-> TRUE, seen |-> FALSE, cache |-> l.cache, read |-> 1]
  ELSE [err |-> FALSE,
        seen |-> Contains(l.cache.SeenIDs, id) \/ Contains(cache.SeenIDs, id),
        cache |-> IF cache.nil THEN l.cache ELSE cache, read |-> 1]

\* DB.Seen: lazy load when the cache is nil, then the membership loop.
Seen(cache, item, getOk, id) ==
  IF cache.nil
  THEN LET l == refreshCache(cache, item, getOk) IN
       IF l.err THEN [err |-> TRUE, seen |-> FALSE, cache |-> l.cache, read |-> 1]
       ELSE [err |-> FALSE, seen |-> Contains(l.cache.SeenIDs, id),
             cache |-> l.cache, read |-> 1]
  ELSE [err |-> FALSE, seen |-> Contains(cache.SeenIDs, id),
        cache |-> cache, read |-> 0]

\* Bug variant of MarkSeen: the appended slice is dropped.
MarkSeen_NoAppend(cache, id) ==
  IF cache.nil THEN [err |-> TRUE, cache |-> cache]
  ELSE [err |-> FALSE, cache |-> cache]

\* Bug variant of MarkSeen: a nil cache is allocated on the fly.
MarkSeen_LazyInit(cache, id) ==
  [err |-> FALSE, cache |-> Cache(Append(cache.SeenIDs, id))]

\* DB.MarkSeen: error on a nil cache, else append.
MarkSeen(cache, id) ==
  IF cache.nil THEN [err |-> TRUE, cache |-> cache]
  ELSE [err |-> FALSE, cache |-> Cache(Append(cache.SeenIDs, id))]

(***************************************************************************)
(* One invocation of HandleRequest.                                        *)
(*   pc       where the invocation stands                                  *)
(*   ret      the value HandleRequest's return statement has set           *)
(*   outcome  "done" returned nil, "failed" returned an error, "fatal"     *)
(*            log.Fatal in the deferred Flush, "panic" nil dereference     *)
(*   sent, start, loaded, reads, puts, flushCalls, errAt, markErrs are     *)
(*   history of the invocation                                             *)
(***************************************************************************)
IdleRun ==
  [pc |-> "idle", listings |-> <<>>, idx |-> 1, cache |-> NilCache,
   ret |-> "none", outcome |-> "none", sent |-> <<>>, start |-> Absent,
   loaded |-> Absent, reads |-> 0, puts |-> 0, flushCalls |-> 0,
   errAt |-> "none", put |-> "none", markErrs |-> 0]

VARIABLES durable, run, prev, nruns
vars == <<durable, run, prev, nruns>>

\* The previous invocation; ever is the ledger of the identifiers notified by
\* the invocations that have returned (kept by ReturnLedger).
NoPrev ==
  [valid |-> FALSE, listings |-> <<>>, sent |-> <<>>, outcome |-> "none",
   start |-> Absent, end |-> Absent, errAt |-> "none", put |-> "none",
   ever |-> {}]

\* Bug variant of AfterFetch: the Flush is deferred before the fetch, so a
\* fetch error runs it.
AfterFetch_DeferFirst(rr, ok, L) ==
  IF ok THEN [rr EXCEPT !.listings = L, !.pc = "loop"]
  ELSE [rr EXCEPT !.pc = "flush", !.ret = "err", !.errAt = "fetch"]

\* Bug variant of AfterFetch: the DB lives in a package-level variable, so a
\* warm process keeps the previous invocation's cache.
AfterFetch_WarmDB(rr, ok, L) ==
  IF ok
  THEN [rr EXCEPT !.listings = L, !.pc = "loop",
                  !.cache = IF prev.valid /\ prev.errAt # "fetch"
                            THEN Cache(UnmarshalMap(prev.start).cache.SeenIDs
                                       \o prev.sent)
                            ELSE @]
  ELSE [rr EXCEPT !.pc = "end", !.ret = "err", !.outcome = "failed",
                  !.errAt = "fetch"]

\* listings, err := fetchListings(ctx); if err != nil { return err }
AfterFetch(rr, ok, L) ==
  IF ok THEN [rr EXCEPT !.listings = L, !.pc = "loop"]
  ELSE [rr EXCEPT !.pc = "end", !.ret = "err", !.outcome = "failed",
                  !.errAt = "fetch"]

\* Bug variant of AfterSeen: a seen listing does not advance the loop.
AfterSeen_NoAdvance(rr, item, getOk) ==
  IF rr.idx > Len(rr.listings)
  THEN [rr EXCEPT !.pc = "flush", !.ret = "nil"]
  ELSE LET s == Seen(rr.cache, item, getOk, rr.listings[rr.idx])
           r1 == [rr EXCEPT !.cache = s.cache, !.reads = @ + s.read,
                            !.loaded = IF s.read = 1 /\ getOk THEN item ELSE @]
       IN IF s.err THEN [r1 EXCEPT !.pc = "flush", !.ret = "err", !.errAt = "load"]
          ELSE IF s.seen THEN r1
          ELSE [r1 EXCEPT !.pc = "notify"]

\* Bug variant of AfterSeen: an unseen listing is marked seen before its
\* alert is sent.
AfterSeen_MarkBeforeNotify(rr, item, getOk) ==
  IF rr.idx > Len(rr.listings)
  THEN [rr EXCEPT !.pc = "flush", !.ret = "nil"]
  ELSE LET s == Seen(rr.cache, item, getOk, rr.listings[rr.idx])
           r1 == [rr EXCEPT !.cache = s.cache, !.reads = @ + s.read,
                            !.loaded = IF s.read = 1 /\ getOk THEN item ELSE @]
       IN IF s.err THEN [r1 EXCEPT !.pc = "flush", !.ret = "err", !.errAt = "load"]
          ELSE IF s.seen THEN [r1 EXCEPT !.idx = @ + 1]
          ELSE [r1 EXCEPT !.pc = "notify",
                          !.cache = MarkSeen(s.cache, rr.listings[rr.idx]).cache]

\* Loop head and seen, err := db.Seen(ctx, listing).
AfterSeen(rr, item, getOk) ==
  IF rr.idx > Len(rr.listings)
  THEN [rr EXCEPT !.pc = "flush", !.ret = "nil"]
  ELSE LET s == Seen(rr.cache, item, getOk, rr.listings[rr.idx])
           r1 == [rr EXCEPT !.cache = s.cache, !.reads = @ + s.read,
                            !.loaded = IF s.read = 1 /\ getOk THEN item ELSE @]
       IN IF s.err THEN [r1 EXCEPT !.pc = "flush", !.ret = "err", !.errAt = "load"]
          ELSE IF s.seen THEN [r1 EXCEPT !.idx = @ + 1]
          ELSE [r1 EXCEPT !.pc = "notify"]

\* Bug variant of AfterNotify: the listing is marked seen whether or not the
\* send succeeded.
AfterNotify_MarkOnFailure(rr, ok) ==
  LET m == MarkSeen(rr.cache, rr.listings[rr.idx]) IN
  IF ~ok THEN [rr EXCEPT !.pc = "flush", !.ret = "err", !.errAt = "notify",
                         !.cache = m.cache]
  ELSE [rr EXCEPT !.sent = Append(@, rr.listings[rr.idx]),
                  !.cache = m.cache,
                  !.markErrs = @ + (IF m.err THEN 1 ELSE 0),
                  !.idx = @ + 1, !.pc = "loop"]

\* Bug variant of AfterNotify: MarkSeen is never called.
AfterNotify_NoMark(rr, ok) ==
  IF ~ok THEN [rr EXCEPT !.pc = "flush", !.ret = "err", !.errAt = "notify"]
  ELSE [rr EXCEPT !.sent = Append(@, rr.listings[rr.idx]),
                  !.idx = @ + 1, !.pc = "loop"]

\* if err = notify.SendListingAlert(...); err != nil { return err }
\* _ = db.MarkSeen(ctx, listing)
AfterNotify(rr, ok) ==
  IF ~ok THEN [rr EXCEPT !.pc = "flush", !.ret = "err", !.errAt = "notify"]
  ELSE LET m == MarkSeen(rr.cache, rr.listings[rr.idx]) IN
       [rr EXCEPT !.sent = Append(@, rr.listings[rr.idx]),
                  !.cache = m.cache,
                  !.markErrs = @ + (IF m.err THEN 1 ELSE 0),
                  !.idx = @ + 1, !.pc = "loop"]

\* Bug variant of AfterFlush: the PutItem error is only logged (no
\* log.Fatal); err is not a named result, so the return value stands.
AfterFlush_NoFatal(rr, putOk) ==
  IF rr.cache.nil
  THEN [rr EXCEPT !.pc = "end", !.flushCalls = @ + 1, !.outcome = "panic"]
  ELSE [rr EXCEPT !.pc = "end", !.flushCalls = @ + 1, !.puts = @ + 1,
                  !.put = IF putOk THEN "ok" ELSE "err",
                  !.outcome = IF rr.ret = "nil" THEN "done" ELSE "failed"]

\* The deferred db.Flush(ctx): db.cache.PartitionKey = ... dereferences a nil
\* cache; a PutItem error ends the process in log.Fatal.
AfterFlush(rr, putOk) ==
  IF rr.cache.nil
  THEN [rr EXCEPT !.pc = "end", !.flushCalls = @ + 1, !.outcome = "panic"]
  ELSE IF putOk
  THEN [rr EXCEPT !.pc = "end", !.flushCalls = @ + 1, !.puts = @ + 1,
                  !.put = "ok",
                  !.outcome = IF rr.ret = "nil" THEN "done" ELSE "failed"]
  ELSE [rr EXCEPT !.pc = "end", !.flushCalls = @ + 1, !.puts = @ + 1,
                  !.put = "err", !.outcome = "fatal"]

\* Bug variant of FlushItem: the item written lacks the identifiers added
\* during the invocation (the cache as loaded is written).
FlushItem_Stale(rr, item, putOk) ==
  IF ~rr.cache.nil /\ putOk
  THEN MarshalMap(Cache(SubSeq(rr.cache.SeenIDs, 1,
                               Len(rr.cache.SeenIDs) - Len(rr.sent))))
  ELSE item

\* Bug variant of FlushItem: the write merges the cache into the stored list
\* instead of overwriting it.
FlushItem_Merge(rr, item, putOk) ==
  IF ~rr.cache.nil /\ putOk
  THEN MarshalMap(Cache(UnmarshalMap(item).cache.SeenIDs \o
         SelectSeq(rr.cache.SeenIDs,
                   LAMBDA x : x \notin Range(UnmarshalMap(item).cache.SeenIDs))))
  ELSE item

\* The item in DynamoDB after the deferred Flush.
FlushItem(rr, item, putOk) ==
  IF ~rr.cache.nil /\ putOk THEN MarshalMap(rr.cache) ELSE item

\* The loop of HandleRequest run to its exit: GetItem answers getOk, the send
\* for the listing at position failAt fails (0: none fails).
RECURSIVE LoopFrom(_, _, _, _)
LoopFrom(rr, item, getOk, failAt) ==
  IF rr.pc = "loop" THEN LoopFrom(AfterSeen(rr, item, getOk), item, getOk, failAt)
  ELSE IF rr.pc = "notify"
  THEN LoopFrom(AfterNotify(rr, rr.idx # failAt), item, getOk, failAt)
  ELSE rr

\* HandleRequest from entry to exit against the durable item `item`: the
\* invocation's final record and the item it leaves.
RunFrom(item, L, fetchOk, getOk, failAt, putOk) ==
  LET r1 == AfterFetch([IdleRun EXCEPT !.pc = "fetch", !.start = item],
                       fetchOk, IF fetchOk THEN L ELSE <<>>)
      r2 == LoopFrom(r1, item, getOk, failAt)
  IN IF r2.pc = "flush"
     THEN [run |-> AfterFlush(r2, putOk), durable |-> FlushItem(r2, item, putOk)]
     ELSE [run |-> r2, durable |-> item]

(***************************************************************************)
(* Actions.                                                                *)
(***************************************************************************)
\* The durable items the first of a sequence of invocations may find.
InitItems == {Absent, Item("L", <<1>>), Item("BAD", <<>>)}

Init ==
  /\ durable \in InitItems
  /\ run = [r \in Slots |-> IdleRun]
  /\ prev = NoPrev
  /\ nruns = 0

\* lambda.Start invokes HandleRequest.
Start(r) ==
  /\ run[r].pc = "idle"
  /\ nruns < MaxRuns
  /\ run' = [run EXCEPT ![r] = [IdleRun EXCEPT !.pc = "fetch", !.start = durable]]
  /\ nruns' = nruns + 1
  /\ UNCHANGED <<durable, prev>>

FetchFrom(r, Ls) ==
  /\ run[r].pc = "fetch"
  /\ \E ok \in BOOLEAN : \E L \in (IF ok THEN Ls ELSE {<<>>}) :
       run' = [run EXCEPT ![r] = AfterFetch(run[r], ok, L)]
  /\ UNCHANGED <<durable, prev, nruns>>

SeenStep(r) ==
  /\ run[r].pc = "loop"
  /\ \E getOk \in (IF run[r].cache.nil /\ run[r].idx <= Len(run[r].listings)
                   THEN BOOLEAN ELSE {TRUE}) :
       run' = [run EXCEPT ![r] = AfterSeen(run[r], durable, getOk)]
  /\ UNCHANGED <<durable, prev, nruns>>

NotifyStep(r) ==
  /\ run[r].pc = "notify"
  /\ \E ok \in BOOLEAN : run' = [run EXCEPT ![r] = AfterNotify(run[r], ok)]
  /\ UNCHANGED <<durable, prev, nruns>>

FlushStep(r) ==
  /\ run[r].pc = "flush"
  /\ \E putOk \in (IF run[r].cache.nil THEN {TRUE} ELSE BOOLEAN) :
       /\ run' = [run EXCEPT ![r] = AfterFlush(run[r], putOk)]
       /\ durable' = FlushItem(run[r], durable, putOk)
  /\ UNCHANGED <<prev, nruns>>

\* The invocation is over; its summary is kept for the next one.
Return(r) ==
  /\ run[r].pc = "end"
  /\ prev' = [valid |-> TRUE, listings |-> run[r].listings, sent |-> run[r].sent,
              outcome |-> run[r].outcome, start |-> run[r].start,
              end |-> durable, errAt |-> run[r].errAt, put |-> run[r].put,
              ever |-> prev.ever]
  /\ run' = [run EXCEPT ![r] = IdleRun]
  /\ UNCHANGED <<durable, nruns>>

\* Sequential invocations: the scheduler starts one only when none is active.
StartSeq == (\A r \in Slots : run[r].pc = "idle") /\ Start(1)
Fetch == \E r \in Slots : FetchFrom(r, SeqsUpTo(IDs, MaxLen))
SeenCall == \E r \in Slots : SeenStep(r)
Notify == \E r \in Slots : NotifyStep(r)
Flush == \E r \in Slots : FlushStep(r)
Finish == \E r \in Slots : Return(r)

Next == StartSeq \/ Fetch \/ SeenCall \/ Notify \/ Flush \/ Finish
Spec == Init /\ [][Next]_vars

(***************************************************************************)
(* Overlapping invocations: nothing in the code excludes a second          *)
(* invocation while the first is active.  Each slot runs once.             *)
(***************************************************************************)
InitOverlap ==
  /\ durable \in {Absent, Item("L", <<1>>)}
  /\ run = [r \in Slots |-> IdleRun]
  /\ prev = NoPrev
  /\ nruns = 0

StartAny == \E r \in Slots : Start(r)

NextOverlap == StartAny \/ Fetch \/ SeenCall \/ Notify \/ Flush
SpecOverlap == InitOverlap /\ [][NextOverlap]_vars

(***************************************************************************)
(* A single invocation, from every kind of durable item, with longer       *)
(* listing sequences.                                                      *)
(***************************************************************************)
RunInitItems ==
  {Absent, Item("NULL", <<>>), Item("L", <<>>), Item("L", <<1>>),
   Item("L", <<2, 1>>), Item("BAD", <<>>), Item("BAD", <<1>>),
   Malformed(<<1>>, <<2>>)}

InitRun ==
  /\ durable \in RunInitItems
  /\ run = [r \in Slots |-> IdleRun]
  /\ prev = NoPrev
  /\ nruns = 0

StartOne == nruns = 0 /\ Start(1)
FetchRun == \E r \in Slots : FetchFrom(r, SeqsUpTo(IDs, RunMaxLen))

NextRun == StartOne \/ FetchRun \/ SeenCall \/ Notify \/ Flush
SpecRun == InitRun /\ [][NextRun]_vars

\* A single invocation that keeps taking its steps: HandleRequest is one
\* thread of control and every collaborator call returns (the calls carry
\* the invocation's context).
SpecRunFair == SpecRun /\ WF_vars(NextRun)

(***************************************************************************)
(* A chain of sequential invocations from an empty seen-set, with the      *)
(* ledger of everything notified.                                          *)
(***************************************************************************)
ChainIDs == 1..(NumIDs - 1)

InitChain ==
  /\ durable \in {Absent, Item("L", <<>>)}
  /\ run = [r \in Slots |-> IdleRun]
  /\ prev = NoPrev
  /\ nruns = 0

\* Return, the ledger extended by what the invocation notified.
ReturnLedger(r) ==
  /\ run[r].pc = "end"
  /\ prev' = [valid |-> TRUE, listings |-> run[r].listings, sent |-> run[r].sent,
              outcome |-> run[r].outcome, start |-> run[r].start,
              end |-> durable, errAt |-> run[r].errAt, put |-> run[r].put,
              ever |-> prev.ever \cup Range(run[r].sent)]
  /\ run' = [run EXCEPT ![r] = IdleRun]
  /\ UNCHANGED <<durable, nruns>>

FetchChain == \E r \in Slots : FetchFrom(r, SeqsUpTo(ChainIDs, MaxLen))
FinishChain == \E r \in Slots : ReturnLedger(r)

NextChain ==
  StartSeq \/ FetchChain \/ SeenCall \/ Notify \/ Flush \/ FinishChain
SpecChain == InitChain /\ [][NextChain]_vars

(***************************************************************************)
(* The DB methods called directly, in any order, on the DB of slot 1       *)
(* (nruns counts the calls).                                               *)
(***************************************************************************)
InitDB ==
  /\ durable \in RunInitItems
  /\ run = [r \in Slots |-> IdleRun]
  /\ prev = NoPrev
  /\ nruns = 0

CallSeen ==
  /\ run[1].pc = "idle" /\ nruns < MaxCalls
  /\ \E id \in IDs : \E getOk \in (IF run[1].cache.nil THEN BOOLEAN ELSE {TRUE}) :
       LET s == Seen(run[1].cache, durable, getOk, id) IN
       run' = [run EXCEPT ![1].cache = s.cache, ![1].reads = @ + s.read,
                          ![1].loaded = IF s.read = 1 /\ getOk THEN durable ELSE @]
  /\ nruns' = nruns + 1
  /\ UNCHANGED <<durable, prev>>

CallMarkSeen ==
  /\ run[1].pc = "idle" /\ nruns < MaxCalls
  /\ \E id \in IDs :
       LET m == MarkSeen(run[1].cache, id) IN
       run' = [run EXCEPT ![1].cache = m.cache,
                          ![1].markErrs = @ + (IF m.err THEN 1 ELSE 0)]
  /\ nruns' = nruns + 1
  /\ UNCHANGED <<durable, prev>>

CallFlush ==
  /\ run[1].pc = "idle" /\ nruns < MaxCalls
  /\ \E putOk \in (IF run[1].cache.nil THEN {TRUE} ELSE BOOLEAN) :
       /\ run' = [run EXCEPT ![1] = AfterFlush(run[1], putOk)]
       /\ durable' = FlushItem(run[1], durable, putOk)
  /\ nruns' = nruns + 1
  /\ UNCHANGED prev

NextDB == CallSeen \/ CallMarkSeen \/ CallFlush
SpecDB == InitDB /\ [][NextDB]_vars

(***************************************************************************)
(* Operators used to state the properties.                                 *)
(***************************************************************************)
\* The identifiers of L that are not in S, once each, in the order of their
\* first occurrence in L.
RECURSIVE NewInOrder(_, _)
NewInOrder(L, S) ==
  IF L = <<>> THEN <<>>
  ELSE IF Head(L) \in S THEN NewInOrder(Tail(L), S)
  ELSE <<Head(L)>> \o NewInOrder(Tail(L), S \cup {Head(L)})

NoDup(s) == \A i, j \in 1..Len(s) : s[i] = s[j] => i = j
IsPrefix(s, t) == Len(s) <= Len(t) /\ SubSeq(t, 1, Len(s)) = s
Ended(r) == run[r].pc = "end"

(***************************************************************************)
(* C1..C10.                                                                *)
(***************************************************************************)
\* Fetch, load, every send and the PutItem of the invocation succeeded.
AllSucceeded(r) ==
  /\ Ended(r) /\ run[r].errAt = "none"
  /\ run[r].reads = 1 /\ run[r].put = "ok"

\* C1: a run in which fetch, load, every notify and the flush succeed
\* notifies exactly the identifiers of L not in the prior seen-set S, once
\* each in the order of first occurrence, none of S, and leaves the durable
\* seen-set equal to S united with the identifiers of L.
C1_SuccessfulRun ==
  \A r \in Slots :
    AllSucceeded(r) =>
      /\ run[r].outcome = "done"
      /\ run[r].sent = NewInOrder(run[r].listings, SeenSetOf(run[r].start))
      /\ Range(run[r].sent) \cap SeenSetOf(run[r].start) = {}
      /\ SeenSetOf(durable) =
           SeenSetOf(run[r].start) \cup Range(run[r].listings)

\* Prior {1}, fetch <<1, 2, 3>>: 2 then 3 notified, durable {1, 2, 3}.
C1_Witness ==
  \E r \in Slots :
    /\ AllSucceeded(r)
    /\ run[r].start = Item("L", <<1>>)
    /\ run[r].listings = <<1, 2, 3>>
    /\ run[r].sent = <<2, 3>>
    /\ SeenSetOf(durable) = {1, 2, 3}

\* C2: across sequential runs with any failures, no notification is sent in
\* a run for an identifier that is in the durable seen-set when the run
\* starts.
C2_NoNotifyForSeen ==
  \A r \in Slots :
    \A i \in 1..Len(run[r].sent) :
      run[r].sent[i] \notin SeenSetOf(run[r].start)

\* A second run after a failed first one met a seen identifier, skipped it
\* and notified another.
C2_Witness ==
  \E r \in Slots :
    /\ Ended(r) /\ prev.valid /\ prev.outcome = "fatal"
    /\ run[r].sent # <<>>
    /\ \E j \in 1..Len(run[r].listings) :
         /\ j < run[r].idx
         /\ run[r].listings[j] \in SeenSetOf(run[r].start)

\* C3: after a fully successful first run on an empty prior seen-set, which
\* notifies once per distinct identifier, a second run on the seen-set it
\* left and the same fetched sequence notifies nothing and leaves the durable
\* seen-set unchanged as a set.
C3_IdempotentRerun ==
  \A r \in Slots :
    ( /\ Ended(r) /\ prev.valid
      /\ prev.outcome = "done" /\ prev.errAt = "none" /\ prev.put = "ok"
      /\ SeenSetOf(prev.start) = {}
      /\ run[r].start = prev.end
      /\ run[r].errAt # "fetch" /\ run[r].listings = prev.listings )
    => /\ NoDup(prev.sent)
       /\ Range(prev.sent) = Range(prev.listings)
       /\ Len(prev.sent) = Cardinality(Range(prev.listings))
       /\ run[r].sent = <<>>
       /\ SeenSetOf(durable) = SeenSetOf(prev.end)

\* The second run went through its whole loop over a sequence with a
\* repeated identifier and flushed.
C3_Witness ==
  \E r \in Slots :
    /\ Ended(r) /\ prev.valid /\ prev.outcome = "done"
    /\ SeenSetOf(prev.start) = {}
    /\ prev.listings = <<2, 2>> /\ run[r].listings = prev.listings
    /\ run[r].outcome = "done" /\ run[r].sent = <<>>

\* C4: within one run an identifier is notified at most once: after its
\* first occurrence it is in the working set, so later occurrences are
\* answered as seen.
C4_NoDuplicateInRun ==
  \A r \in Slots :
    /\ NoDup(run[r].sent)
    /\ \A j \in 1..Len(run[r].listings) :
         (j < run[r].idx /\ ~run[r].cache.nil) =>
           Contains(run[r].cache.SeenIDs, run[r].listings[j])

\* A fetched sequence repeating a new identifier was processed to its end.
C4_Witness ==
  \E r \in Slots :
    /\ Ended(r) /\ run[r].outcome = "done"
    /\ run[r].listings = <<2, 2, 1>>
    /\ run[r].sent = <<2, 1>>

\* The notifier failed on the listing at run[r].idx.
NotifyFailed(r) == Ended(r) /\ run[r].errAt = "notify"

C6_LoadFailureLeavesItem ==
  \A r \in Slots :
    (Ended(r) /\ run[r].errAt = "load") =>
      /\ run[r].sent = <<>>
      /\ durable = run[r].start

\* C8: a failed fetch ends the run in failure with no durable read, no
\* notification and no Flush call, the durable item unchanged.
C8_FetchFailure ==
  \A r \in Slots :
    (Ended(r) /\ run[r].errAt = "fetch") =>
      /\ run[r].outcome = "failed"
      /\ run[r].reads = 0 /\ run[r].sent = <<>>
      /\ run[r].flushCalls = 0 /\ run[r].puts = 0
      /\ durable = run[r].start

\* A fetch failed while the durable seen-set was not empty.
C8_Witness ==
  \E r \in Slots :
    /\ Ended(r) /\ run[r].errAt = "fetch"
    /\ SeenSetOf(durable) # {}

\* C9: when the PutItem of the flush fails after the loop completed, the run
\* does not end as a success, the durable item keeps its pre-run value, and
\* the notifications of the run have been sent.
C9_FlushFailure ==
  \A r \in Slots :
    (Ended(r) /\ run[r].ret = "nil" /\ run[r].put = "err") =>
      /\ run[r].outcome = "fatal"
      /\ durable = run[r].start
      /\ run[r].sent = NewInOrder(run[r].listings, SeenSetOf(run[r].start))

\* The loop notified two listings and the PutItem then failed.
C9_Witness ==
  \E r \in Slots :
    /\ Ended(r) /\ run[r].ret = "nil" /\ run[r].put = "err"
    /\ Len(run[r].sent) = 2

\* The previous run sent notifications and its flush did not write; this run
\* starts from the same durable item, fetched the same listings and loaded.
RerunAfterLostFlush(r) ==
  /\ Ended(r) /\ prev.valid
  /\ prev.sent # <<>> /\ prev.put = "err" /\ prev.end = prev.start
  /\ run[r].start = prev.start
  /\ run[r].errAt \notin {"fetch", "load"}
  /\ run[r].listings = prev.listings

\* C10 as claimed: that next run notifies again every identifier the
\* previous run notified.
C10_RenotifiesAll ==
  \A r \in Slots :
    RerunAfterLostFlush(r) => Range(prev.sent) \subseteq Range(run[r].sent)

\* C10 amended: that next run notifies again every identifier the previous
\* run notified, provided none of its own sends fails; if one fails it has
\* notified again those before the failure.
C10_RenotifiesUnlessSendFails ==
  \A r \in Slots :
    RerunAfterLostFlush(r) =>
      /\ run[r].errAt # "notify" => Range(prev.sent) \subseteq Range(run[r].sent)
      /\ IsPrefix(run[r].sent, NewInOrder(prev.listings, SeenSetOf(prev.start)))

\* Two identifiers notified, flush lost, both notified again by the next run.
C10_Witness ==
  \E r \in Slots :
    /\ RerunAfterLostFlush(r)
    /\ prev.sent = <<3, 1>> /\ run[r].sent = <<3, 1>>

\* C7: overlapping runs are not isolated.  Each run decides what to notify
\* from the seen-set it loaded itself, whatever the other run has notified
\* or written since, and a successful flush overwrites the item with the
\* flushing run's own working set: the durable item is always the working
\* set of one run that flushed, never a merge.  So two runs that loaded the
\* same set both notify the same new identifier, and the later flush drops
\* what the earlier run added.
C7_OverlapLastWriterWins ==
  /\ \A r \in Slots :
       run[r].reads = 1 =>
         IsPrefix(run[r].sent,
                  NewInOrder(run[r].listings,
                             Range(UnmarshalMap(run[r].loaded).cache.SeenIDs)))
  /\ (\E r \in Slots : run[r].put = "ok") =>
       \E r \in Slots : run[r].put = "ok" /\ durable = MarshalMap(run[r].cache)

\* Both runs loaded the same item and notified the same new identifier, and
\* an identifier one run notified and flushed is gone from the durable item
\* after the other run's flush.
C7_Witness ==
  /\ \A r \in Slots : Ended(r) /\ run[r].put = "ok"
  /\ run[1].loaded = run[2].loaded
  /\ \E x \in IDs :
       /\ x \notin SeenSetOf(run[1].loaded)
       /\ x \in Range(run[1].sent) \cap Range(run[2].sent)
  /\ \E r \in Slots : \E y \in Range(run[r].sent) :
       /\ Contains(run[r].cache.SeenIDs, y)
       /\ y \notin SeenSetOf(durable)


(***************************************************************************)
(* C11..C20.                                                               *)
(***************************************************************************)
\* The invocation HandleRequest would have been had it met the item `item`
\* with the fetch result and the collaborator failures of invocation r (a
\* failed GetItem is the load error that leaves the cache nil).
Twin(r, item) ==
  RunFrom(item, run[r].listings, run[r].errAt # "fetch",
          ~(run[r].errAt = "load" /\ run[r].cache.nil),
          IF run[r].errAt = "notify" THEN run[r].idx ELSE 0,
          run[r].put # "err")

\* C11: a run that finds no durable item sends the same notifications,
\* reaches the same outcome and leaves the same durable seen-set as the run
\* with the same fetched sequence and the same failures that finds an item
\* holding an empty identifier list.
C11_AbsenceIsEmpty ==
  \A r \in Slots :
    (Ended(r) /\ run[r].start = Absent) =>
      LET t == Twin(r, Item("L", <<>>)) IN
      /\ t.run.sent = run[r].sent
      /\ t.run.outcome = run[r].outcome
      /\ t.run.errAt = run[r].errAt
      /\ t.run.cache = run[r].cache
      /\ SeenSetOf(t.durable) = SeenSetOf(durable)

\* A run from no item notified two listings and flushed them.
C11_Witness ==
  \E r \in Slots :
    /\ Ended(r) /\ run[r].start = Absent
    /\ run[r].outcome = "done" /\ run[r].sent = <<2, 1>>
    /\ Twin(r, Item("L", <<>>)).durable = durable


\* The first Seen call of invocation r read the durable item successfully.
Loaded(r) == run[r].reads >= 1 /\ run[r].errAt # "load"

\* C12: a run whose first Seen call loads successfully reads the durable
\* item exactly once, in that first call, and calls PutItem exactly once,
\* after the loop has ended or a failed send has aborted it, whatever the
\* number of listings.
C12_OneReadOneWrite ==
  \A r \in Slots :
    /\ run[r].reads <= 1
    /\ (run[r].pc \in {"loop", "notify"} /\ run[r].idx > 1) => run[r].reads = 1
    /\ run[r].pc \in {"fetch", "loop", "notify", "flush"} =>
         run[r].puts = 0 /\ run[r].flushCalls = 0
    /\ (Ended(r) /\ Loaded(r)) =>
         /\ run[r].reads = 1 /\ run[r].puts = 1 /\ run[r].flushCalls = 1
         /\ run[r].ret = "nil" \/ run[r].errAt = "notify"

\* Three listings, the third send failed: one read, one write.
C12_Witness ==
  \E r \in Slots :
    /\ Ended(r) /\ Loaded(r)
    /\ Len(run[r].listings) = 3 /\ Len(run[r].sent) = 2
    /\ run[r].errAt = "notify"
    /\ run[r].reads = 1 /\ run[r].puts = 1


C14_CompletedLoopFlushes ==
  \A r \in Slots :
    (Ended(r) /\ run[r].ret = "nil" /\ run[r].put # "err") =>
      /\ run[r].flushCalls = 1 /\ run[r].put = "ok"
      /\ run[r].outcome = "done"
      /\ durable = MarshalMap(run[r].cache)


\* C15: when Seen fails on the load, the run ends as failed with that error
\* and never enters the flush step: Flush is not invoked in the run.
C15_LoadFailureSkipsFlush ==
  \A r \in Slots :
    (run[r].errAt = "load") =>
      /\ run[r].flushCalls = 0 /\ run[r].puts = 0
      /\ Ended(r) => run[r].outcome = "failed"


\* Every identifier an alert has been sent for, in a returned invocation or
\* a current one.
Ever == prev.ever \cup UNION {Range(run[r].sent) : r \in Slots}

\* C16: from an empty or absent durable item, after any sequence of
\* sequential runs with any failures, every identifier in the durable
\* seen-set has been notified in that or an earlier run; within a run an
\* identifier enters the working set only after its alert was sent, and
\* PutItem is called only after the last alert of the run.
C16_SeenImpliesNotified ==
  /\ SeenSetOf(durable) \subseteq Ever
  /\ \A r \in Slots :
       /\ Range(run[r].cache.SeenIDs) \subseteq
            SeenSetOf(run[r].start) \cup Range(run[r].sent)
       /\ run[r].puts >= 1 => Ended(r)
       /\ run[r].pc \in {"fetch", "loop", "notify", "flush"} =>
            durable = run[r].start

\* An earlier run notified and lost its flush; the current run notified and
\* flushed.
C16_Witness ==
  \E r \in Slots :
    /\ Ended(r) /\ run[r].put = "ok" /\ run[r].sent # <<>>
    /\ prev.valid /\ prev.put = "err" /\ prev.sent # <<>>
    /\ Ever \ SeenSetOf(durable) # {}


\* C17: the stored identifiers are a set: in sequential runs from a
\* duplicate-free or absent item, the working set of a run and the list in
\* the durable item hold each identifier at most once, also when fetched
\* sequences repeat identifiers.
C17_NoDuplicateStored ==
  /\ NoDup(durable.v)
  /\ \A r \in Slots : NoDup(run[r].cache.SeenIDs)

\* The second run fetched the same new identifier twice and flushed.
C17_Witness ==
  \E r \in Slots :
    /\ Ended(r) /\ prev.valid /\ Len(prev.sent) = 2
    /\ run[r].listings = <<3, 3>> /\ run[r].put = "ok"
    /\ Len(durable.v) = 3


C19_MarkSeenNeverFails ==
  \A r \in Slots :
    /\ run[r].markErrs = 0
    /\ run[r].pc = "notify" => (~run[r].cache.nil /\ run[r].reads = 1)
    /\ \A i \in 1..Len(run[r].sent) :
         Contains(run[r].cache.SeenIDs, run[r].sent[i])

\* A run that found no item marked two identifiers.
C19_Witness ==
  \E r \in Slots :
    /\ Ended(r) /\ run[r].start = Absent
    /\ Len(run[r].sent) = 2 /\ run[r].cache.SeenIDs = run[r].sent


====
